---------------------------- MODULE Spec2Model ----------------------------
(***************************************************************************)
(* Model of backend/ai/ai_server.py: the FastAPI service with the handlers *)
(* root, health, analyze_banner, chat and create_event_conversation, the   *)
(* startup step that loads the analyzer, and the collaborators the         *)
(* handlers call (ollama.chat, BannerAnalyzer.analyze, the upload, the     *)
(* temporary file).                                                        *)
(*                                                                         *)
(* Text that the code inspects character by character (strip, startswith,  *)
(* lower, substring search) is a sequence of one-character strings.  JSON  *)
(* text is a sequence of tokens, and json.loads / json.dumps are computed  *)
(* over it.                                                                *)
(***************************************************************************)
EXTENDS Integers, Sequences, FiniteSets, TLC

(***************************************************************************)
(* Bounds of the model.                                                    *)
(***************************************************************************)
\* Requests handled at the same time (slots of the request table).
MaxInFlight == 2
\* Requests received in one behaviour.
MaxRequests == 2
\* Python's recursion limit, scaled: nesting depth json.loads can decode.
MaxDepth == 6

(***************************************************************************)
(* Strings: Python str operations used by the handlers.                    *)
(***************************************************************************)
Whitespace == {" ", "\t", "\n"}

UpperCase == <<"A","B","C","D","E","F","G","H","I","J","K","L","M","N","O","P","Q","R","S","T","U","V","W","X","Y","Z">>
LowerCase == <<"a","b","c","d","e","f","g","h","i","j","k","l","m","n","o","p","q","r","s","t","u","v","w","x","y","z">>

\* str.lower() on one character
LowerChar(c) ==
  IF \E i \in 1..Len(UpperCase) : UpperCase[i] = c
  THEN LowerCase[CHOOSE i \in 1..Len(UpperCase) : UpperCase[i] = c]
  ELSE c

\* str.lower()
Lower(s) == [i \in 1..Len(s) |-> LowerChar(s[i])]

\* s.startswith(prefix)
StartsWith(s, prefix) ==
  /\ Len(prefix) <= Len(s)
  /\ SubSeq(s, 1, Len(prefix)) = prefix

\* sub in s
Contains(sub, s) ==
  \E i \in 0..(Len(s) - Len(sub)) : SubSeq(s, i + 1, i + Len(sub)) = sub

\* s.strip(): leading and trailing whitespace removed
Strip(s) ==
  LET keep == {i \in 1..Len(s) : s[i] \notin Whitespace}
  IN  IF keep = {} THEN <<>>
      ELSE LET lo == CHOOSE i \in keep : \A j \in keep : i <= j
               hi == CHOOSE i \in keep : \A j \in keep : j <= i
           IN  SubSeq(s, lo, hi)

\* bool(s) of a str: the empty string is falsy
Truthy(s) == Len(s) > 0

\* str(n) for the HTTP status codes the handlers raise
StatusText(status) ==
  CASE status = 400 -> <<"4", "0", "0">>
    [] status = 500 -> <<"5", "0", "0">>
    [] status = 503 -> <<"5", "0", "3">>
    [] OTHER -> <<"2", "0", "0">>

(***************************************************************************)
(* Literals of the source.                                                 *)
(***************************************************************************)
\* variant: the marker without its slash
IMAGE_PREFIX_NoSlash == <<"i", "m", "a", "g", "e">>
IMAGE_PREFIX == <<"i", "m", "a", "g", "e", "/">>
KW_CONNECTION == <<"c", "o", "n", "n", "e", "c", "t", "i", "o", "n">>
KW_PORT == <<"1", "1", "4", "3", "4">>
DETAIL_NOT_INITIALIZED == <<"A", "n", "a", "l", "y", "z", "e", "r", " ", "n", "o", "t", " ", "i", "n", "i", "t", "i", "a", "l", "i", "z", "e", "d">>
DETAIL_NOT_IMAGE == <<"F", "i", "l", "e", " ", "m", "u", "s", "t", " ", "b", "e", " ", "a", "n", " ", "i", "m", "a", "g", "e">>
DETAIL_ANALYSIS_FAILED == <<"A", "n", "a", "l", "y", "s", "i", "s", " ", "f", "a", "i", "l", "e", "d", ":", " ">>
DETAIL_MESSAGE_REQUIRED == <<"M", "e", "s", "s", "a", "g", "e", " ", "i", "s", " ", "r", "e", "q", "u", "i", "r", "e", "d">>
DETAIL_EMPTY_RESPONSE == <<"E", "m", "p", "t", "y", " ", "r", "e", "s", "p", "o", "n", "s", "e", " ", "f", "r", "o", "m", " ", "m", "o", "d", "e", "l">>
DETAIL_OLLAMA_DOWN == <<"O", "l", "l", "a", "m", "a", " ", "i", "s", " ", "n", "o", "t", " ", "r", "u", "n", "n", "i", "n", "g", " ", "o", "n", " ", "p", "o", "r", "t", " ", "1", "1", "4", "3", "4">>
DETAIL_CHAT_FAILED == <<"C", "h", "a", "t", " ", "f", "a", "i", "l", "e", "d", ":", " ">>
DETAIL_CONV_FAILED == <<"E", "v", "e", "n", "t", " ", "c", "o", "n", "v", "e", "r", "s", "a", "t", "i", "o", "n", " ", "f", "a", "i", "l", "e", "d", ":", " ">>
DETAIL_INTERNAL == <<"I", "n", "t", "e", "r", "n", "a", "l", " ", "S", "e", "r", "v", "e", "r", " ", "E", "r", "r", "o", "r">>
\* the system prompts, each kept as one opaque piece of text
CHAT_SYSTEM_PROMPT == <<"You are a helpful AI assistant for Event Corner ...">>
CONV_SYSTEM_PROMPT == <<"You are an expert event planning assistant for Event Corner platform ...">>
CONTEXT_PREFIX == <<"C", "o", "n", "t", "e", "x", "t", ":", " ">>
FALLBACK_QUESTION == "I'm having trouble understanding. Could you describe your event with more details?"

(***************************************************************************)
(* JSON values (what json.loads returns) and JSON text (token sequences).  *)
(***************************************************************************)
JStr(s) == [t |-> "str", v |-> <<s>>]
JNum(n) == [t |-> "num", v |-> <<n>>]
JBool(b) == [t |-> "bool", v |-> <<IF b THEN "true" ELSE "false">>]
JNull == [t |-> "null", v |-> <<>>]
JArr(items) == [t |-> "arr", v |-> items]
JObj(pairs) == [t |-> "obj", v |-> pairs]
KV(k, x) == [key |-> k, val |-> x]

Tok(kind, text) == [k |-> kind, v |-> text]
P(c) == Tok("punct", c)

\* dict.get(key, default) on a parsed JSON object
HasKey(obj, k) == obj.t = "obj" /\ \E i \in 1..Len(obj.v) : obj.v[i].key = k
GetKey(obj, k, default) ==
  IF HasKey(obj, k)
  THEN obj.v[CHOOSE i \in 1..Len(obj.v) : obj.v[i].key = k].val
  ELSE default

\* variant: a key already present keeps its first value
PutKey_FirstWins(pairs, k, x) ==
  IF \E i \in 1..Len(pairs) : pairs[i].key = k
  THEN pairs
  ELSE Append(pairs, KV(k, x))

\* dict[key] = x: an existing key keeps its position and takes the new value
PutKey(pairs, k, x) ==
  IF \E i \in 1..Len(pairs) : pairs[i].key = k
  THEN [i \in 1..Len(pairs) |-> IF pairs[i].key = k THEN KV(k, x) ELSE pairs[i]]
  ELSE Append(pairs, KV(k, x))

\* float(lexeme) / int(lexeme), written back as Python's repr of the number
NumValue(lexeme) ==
  CASE lexeme = "0.60" -> "0.6"
    [] lexeme = "1e400" -> "inf"
    [] OTHER -> lexeme

\* the constants json.loads accepts beside true, false and null
LitValue(text) ==
  CASE text = "true" -> JBool(TRUE)
    [] text = "false" -> JBool(FALSE)
    [] text = "null" -> JNull
    [] text = "NaN" -> JNum("nan")
    [] text = "Infinity" -> JNum("inf")
    [] OTHER -> JNum("-inf")

Literals == {"true", "false", "null", "NaN", "Infinity", "-Infinity"}

PResult(status, value, rest) == [st |-> status, val |-> value, rest |-> rest]
PError == PResult("decode_error", JNull, <<>>)
PDeep == PResult("recursion_error", JNull, <<>>)

RECURSIVE ParseValue(_, _)
RECURSIVE ParseMembers(_, _, _)
RECURSIVE ParseElements(_, _, _)

\* one JSON value at the head of toks; depth counts the enclosing containers
ParseValue(toks, depth) ==
  IF toks = <<>> THEN PError
  ELSE LET h == Head(toks)
           r == Tail(toks)
       IN CASE h.k = "str" -> PResult("ok", JStr(h.v), r)
            [] h.k = "num" -> PResult("ok", JNum(NumValue(h.v)), r)
            [] h.k = "lit" /\ h.v \in Literals -> PResult("ok", LitValue(h.v), r)
            [] h.k = "punct" /\ h.v = "{" ->
                 IF depth >= MaxDepth THEN PDeep
                 ELSE IF r # <<>> /\ Head(r) = P("}")
                      THEN PResult("ok", JObj(<<>>), Tail(r))
                      ELSE ParseMembers(r, depth + 1, <<>>)
            [] h.k = "punct" /\ h.v = "[" ->
                 IF depth >= MaxDepth THEN PDeep
                 ELSE IF r # <<>> /\ Head(r) = P("]")
                      THEN PResult("ok", JArr(<<>>), Tail(r))
                      ELSE ParseElements(r, depth + 1, <<>>)
            [] OTHER -> PError

\* "key": value pairs up to the closing brace
ParseMembers(toks, depth, acc) ==
  IF Len(toks) < 2 \/ toks[1].k # "str" \/ toks[2] # P(":") THEN PError
  ELSE LET m == ParseValue(SubSeq(toks, 3, Len(toks)), depth)
       IN IF m.st # "ok" THEN m
          ELSE LET pairs == PutKey(acc, toks[1].v, m.val)
               IN IF m.rest = <<>> THEN PError
                  ELSE IF Head(m.rest) = P("}")
                       THEN PResult("ok", JObj(pairs), Tail(m.rest))
                  ELSE IF Head(m.rest) = P(",")
                       THEN ParseMembers(Tail(m.rest), depth, pairs)
                  ELSE PError

RECURSIVE ParseElements_KeepLast(_, _, _)
\* variant: each item replaces the list instead of being appended to it
ParseElements_KeepLast(toks, depth, acc) ==
  LET m == ParseValue(toks, depth)
  IN IF m.st # "ok" THEN m
     ELSE LET items == <<m.val>>
          IN IF m.rest = <<>> THEN PError
             ELSE IF Head(m.rest) = P("]")
                  THEN PResult("ok", JArr(items), Tail(m.rest))
             ELSE IF Head(m.rest) = P(",")
                  THEN ParseElements_KeepLast(Tail(m.rest), depth, items)
             ELSE PError

\* array items up to the closing bracket
ParseElements(toks, depth, acc) ==
  LET m == ParseValue(toks, depth)
  IN IF m.st # "ok" THEN m
     ELSE LET items == Append(acc, m.val)
          IN IF m.rest = <<>> THEN PError
             ELSE IF Head(m.rest) = P("]")
                  THEN PResult("ok", JArr(items), Tail(m.rest))
             ELSE IF Head(m.rest) = P(",")
                  THEN ParseElements(Tail(m.rest), depth, items)
             ELSE PError

NotSpace(tok) == tok.k # "ws"

\* json.loads(content): a value, json.JSONDecodeError, or RecursionError
Loads(content) ==
  LET m == ParseValue(SelectSeq(content, NotSpace), 0)
  IN IF m.st = "ok" /\ m.rest # <<>> THEN PError ELSE m

RECURSIVE Finite(_)
\* no NaN or infinity anywhere in the value (json.dumps(allow_nan=False))
Finite(x) ==
  CASE x.t = "num" -> x.v[1] \notin {"nan", "inf", "-inf"}
    [] x.t = "arr" -> \A i \in 1..Len(x.v) : Finite(x.v[i])
    [] x.t = "obj" -> \A i \in 1..Len(x.v) : Finite(x.v[i].val)
    [] OTHER -> TRUE

RECURSIVE DumpsToks(_)
RECURSIVE DumpsPairs(_)
RECURSIVE DumpsItems(_)
\* json.dumps(x, separators=(",", ":")) as tokens
DumpsToks(x) ==
  CASE x.t = "str" -> <<Tok("str", x.v[1])>>
    [] x.t = "num" -> <<Tok("num", x.v[1])>>
    [] x.t = "bool" -> <<Tok("lit", x.v[1])>>
    [] x.t = "null" -> <<Tok("lit", "null")>>
    [] x.t = "arr" -> <<P("[")>> \o DumpsItems(x.v) \o <<P("]")>>
    [] OTHER -> <<P("{")>> \o DumpsPairs(x.v) \o <<P("}")>>

DumpsPairs(pairs) ==
  IF pairs = <<>> THEN <<>>
  ELSE <<Tok("str", pairs[1].key), P(":")>> \o DumpsToks(pairs[1].val)
       \o (IF Len(pairs) = 1 THEN <<>> ELSE <<P(",")>> \o DumpsPairs(Tail(pairs)))

DumpsItems(items) ==
  IF items = <<>> THEN <<>>
  ELSE DumpsToks(items[1])
       \o (IF Len(items) = 1 THEN <<>> ELSE <<P(",")>> \o DumpsItems(Tail(items)))

\* JSONResponse.render: ValueError on an out-of-range float, else the body
Render(x) == [ok |-> Finite(x), toks |-> IF Finite(x) THEN DumpsToks(x) ELSE <<>>]

(***************************************************************************)
(* Requests, replies of the collaborators, responses.                      *)
(***************************************************************************)
None == [some |-> FALSE, val |-> <<>>]
Some(x) == [some |-> TRUE, val |-> x]

\* a response as the client sees it: status, the detail of an error, the JSON body
Response(status, detail, body) == [status |-> status, detail |-> detail, body |-> body]
NoResponse == Response(0, <<>>, <<>>)
\* raise HTTPException(status_code, detail) leaving the handler
HTTPError(status, detail) == Response(status, detail, <<>>)
\* JSONResponse(content=x) of a content that renders
JSONResponse(x) == Response(200, <<>>, Render(x).toks)

\* str(e) of an HTTPException: "<status>: <detail>" where the class defines
\* __str__, the empty string where it does not
StrHTTPException(status, detail) ==
  {StatusText(status) \o <<":", " ">> \o detail, <<>>}

ERR_OUT_OF_RANGE == <<"O", "u", "t", " ", "o", "f", " ", "r", "a", "n", "g", "e", " ", "f", "l", "o", "a", "t", " ", "v", "a", "l", "u", "e", "s", " ", "a", "r", "e", " ", "n", "o", "t", " ", "J", "S", "O", "N", " ", "c", "o", "m", "p", "l", "i", "a", "n", "t">>
ERR_RECURSION == <<"m", "a", "x", "i", "m", "u", "m", " ", "r", "e", "c", "u", "r", "s", "i", "o", "n", " ", "d", "e", "p", "t", "h", " ", "e", "x", "c", "e", "e", "d", "e", "d">>

\* what ollama.chat did: raised (err), or returned a response whose
\* message.content is `text` for chat and `content` for the JSON mode
EngineRaise(msg) == [ok |-> FALSE, err |-> msg, has_message |-> FALSE, text |-> "", content |-> <<>>]
EngineText(s) == [ok |-> TRUE, err |-> <<>>, has_message |-> TRUE, text |-> s, content |-> <<>>]
EngineJSON(toks) == [ok |-> TRUE, err |-> <<>>, has_message |-> TRUE, text |-> "", content |-> toks]
EngineNoMessage == [ok |-> TRUE, err |-> <<>>, has_message |-> FALSE, text |-> "", content |-> <<>>]
NoReply == [ok |-> FALSE, err |-> <<>>, has_message |-> FALSE, text |-> "", content |-> <<>>]

ROLE_SYSTEM == <<"system">>
ROLE_USER == <<"user">>
ROLE_ASSISTANT == <<"assistant">>
Message(role, content) == [role |-> role, content |-> content]

\* d.get(key, default) on a conversation turn (a dict)
TurnGet(d, key, default) == IF key \in DOMAIN d THEN d[key] ELSE default

IdleRequest ==
  [kind |-> "none", pc |-> "idle", message |-> <<>>, context |-> None,
   history |-> None, content_type |-> None, messages |-> <<>>,
   reply |-> NoReply, id |-> 0, tmp |-> 0, tmp_path |-> 0, calls |-> 0, acalls |-> 0,
   error |-> None, result |-> JNull, response |-> NoResponse]

(***************************************************************************)
(* Inputs.                                                                 *)
(***************************************************************************)
\* request.message
Messages == {<<>>, <<" ", " ">>, <<" ", "\t", "\n">>, <<"h", "i">>, <<" ", "h", "i", " ">>}

\* request.context
Contexts == {None, Some(<<>>), Some(<<"c", "t", "x">>)}

\* conversation turns: a complete one, one with an extra key, one without a role
Turns ==
  { [role |-> ROLE_USER, content |-> <<"workshop on Zoom">>],
    [role |-> ROLE_ASSISTANT, content |-> <<"What date?">>, id |-> <<"7">>],
    [content |-> <<"no role">>] }

\* longest conversation history
MaxHistory == 2

RECURSIVE SeqsUpTo(_, _)
SeqsUpTo(S, n) ==
  IF n = 0 THEN {<<>>}
  ELSE LET shorter == SeqsUpTo(S, n - 1)
       IN shorter \cup {Append(h, x) : h \in {q \in shorter : Len(q) = n - 1}, x \in S}

\* request.conversation_history
Histories == {None} \cup {Some(h) : h \in SeqsUpTo(Turns, MaxHistory)}

\* file.content_type of the upload; None when the part declares none
ContentTypes ==
  {None, Some(<<"i", "m", "a", "g", "e", "/", "p", "n", "g">>), Some(<<"t", "e", "x", "t", "/", "p", "l", "a", "i", "n">>), Some(<<"I", "m", "a", "g", "e", "/", "p", "n", "g">>),
   Some(<<"i", "m", "a", "g", "e">>), Some(<<>>)}

\* str(e) of a failure of a collaborator
ErrorMessages ==
  {<<"C", "o", "n", "n", "e", "c", "t", "i", "o", "n", " ", "r", "e", "f", "u", "s", "e", "d">>, <<"h", "o", "s", "t", ":", "1", "1", "4", "3", "4", " ", "d", "o", "w", "n">>, <<"m", "o", "d", "e", "l", " ", "n", "o", "t", " ", "f", "o", "u", "n", "d">>,
   <<"F", "a", "i", "l", "e", "d", " ", "t", "o", " ", "c", "o", "n", "n", "e", "c", "t", " ", "t", "o", " ", "p", "o", "r", "t", " ", "1", "1", "4", "3">>, <<>>}

\* message.content of a chat reply
ChatTexts == {"", "Sure, here is how to create an event."}

(***************************************************************************)
(* Outputs of the completion engine in JSON mode.                          *)
(***************************************************************************)
\* the fallback of create_event_conversation when the output does not decode
FallbackClarification ==
  JObj(<< KV("needs_clarification", JBool(TRUE)),
          KV("question", JStr(FALLBACK_QUESTION)),
          KV("extracted_so_far", JObj(<<>>)),
          KV("missing_fields",
             JArr(<<JStr("title"), JStr("category"), JStr("venue_type"), JStr("timeslots")>>)),
          KV("confidence", JNum("0.0")) >>)

\* the two shapes of the prompt's RESPONSE FORMAT
ClarificationValue(conf) ==
  JObj(<< KV("needs_clarification", JBool(TRUE)),
          KV("question", JStr("What date and time will the workshop be held?")),
          KV("extracted_so_far",
             JObj(<<KV("title", JStr("React Workshop")), KV("category", JStr("workshop")),
                    KV("venue_type", JStr("online"))>>)),
          KV("missing_fields", JArr(<<JStr("timeslots")>>)),
          KV("confidence", JNum(conf)) >>)

EventData(category) ==
  JObj(<< KV("title", JStr("React Workshop")),
          KV("description", JStr("Learn React...")),
          KV("category", JStr(category)),
          KV("venue_type", JStr("online")),
          KV("venue_name", JStr("Zoom")),
          KV("timeslots",
             JArr(<<JObj(<<KV("title", JStr("Main Session")),
                           KV("start", JStr("2025-01-15T14:00:00+06:00")),
                           KV("end", JStr("2025-01-15T16:00:00+06:00"))>>)>>)),
          KV("tags", JArr(<<JStr("react"), JStr("javascript")>>)) >>)

CompletionValue(category, conf) ==
  JObj(<< KV("needs_clarification", JBool(FALSE)),
          KV("event_data", EventData(category)),
          KV("confidence", JNum(conf)),
          KV("message", JStr("Great! I've extracted all the details for your event.")) >>)

\* a Completion without the needs_clarification flag
CompletionNoFlag ==
  JObj(<< KV("event_data", EventData("seminar")),
          KV("confidence", JNum("0.6")),
          KV("message", JStr("Done.")) >>)

\* complete Completions the engine can produce
CompletionValues ==
  {CompletionValue("workshop", "0.95"), CompletionValue("party", "1"), CompletionNoFlag}

\* well-formed Clarifications the engine can produce
ClarificationValues == {ClarificationValue("0.6")}

\* values that decode but are neither shape
OtherValues ==
  { JObj(<<KV("foo", JStr("bar"))>>),
    JObj(<<KV("needs_clarification", JBool(TRUE))>>),
    JObj(<<KV("needs_clarification", JBool(FALSE)), KV("event_data", JStr("n/a"))>>),
    JNum("0"), JNull, JArr(<<>>), JStr("hello") }

WS == Tok("ws", " ")

\* an output of the engine: its text, and the JSON value the text denotes
Output(text, value) == [text |-> text, value |-> value]

\* a Completion whose confidence is written 0.60
PaddedCompletionText ==
  << P("{"), Tok("str", "event_data"), P(":") >> \o DumpsToks(EventData("other"))
  \o << P(","), Tok("str", "confidence"), P(":"), Tok("num", "0.60"), P(","),
        Tok("str", "message"), P(":"), Tok("str", "ok"), P("}") >>

PaddedCompletionValue ==
  JObj(<< KV("event_data", EventData("other")), KV("confidence", JNum("0.6")),
          KV("message", JStr("ok")) >>)

\* an object that writes the key confidence twice
DuplicateKeyText ==
  << P("{"), Tok("str", "confidence"), P(":"), Tok("num", "0.1"), P(","),
     Tok("str", "confidence"), P(":"), Tok("num", "0.9"), P("}") >>

CompletionOutputs ==
  {Output(DumpsToks(x), x) : x \in CompletionValues}
  \cup { Output(<<WS>> \o DumpsToks(CompletionValue("workshop", "0.95")) \o <<WS>>,
                CompletionValue("workshop", "0.95")),
         Output(PaddedCompletionText, PaddedCompletionValue) }

ClarificationOutputs == {Output(DumpsToks(x), x) : x \in ClarificationValues}

OtherOutputs ==
  {Output(DumpsToks(x), x) : x \in OtherValues}
  \cup {Output(DuplicateKeyText, JObj(<<KV("confidence", JNum("0.9"))>>))}

\* texts json.loads reads and json.dumps(allow_nan=False) refuses to write back
UnrenderableContents ==
  { << P("{"), Tok("str", "confidence"), P(":"), Tok("lit", "NaN"), P("}") >>,
    << P("{"), Tok("str", "confidence"), P(":"), Tok("num", "1e400"), P("}") >> }

\* texts that json.loads decodes
DecodableContents ==
  {o.text : o \in CompletionOutputs \cup ClarificationOutputs \cup OtherOutputs}
  \cup UnrenderableContents

\* containers nested deeper than the decoder's recursion allows
DeepContent == [i \in 1..(MaxDepth + 1) |-> P("[")]

Truncate(toks) == SubSeq(toks, 1, Len(toks) - 1)

\* non-empty texts that json.loads rejects with a JSONDecodeError
UndecodableContents ==
  { <<WS>>,
    <<Tok("bad", "Sure! Here is the event:")>>,
    <<Tok("bad", "Here is the JSON:")>> \o DumpsToks(CompletionValue("workshop", "0.95")),
    Truncate(DumpsToks(CompletionValue("workshop", "0.95"))),
    Truncate(DumpsToks(ClarificationValue("0.6"))),
    DumpsToks(ClarificationValue("0.6")) \o DumpsToks(ClarificationValue("0.6")),
    << P("{"), Tok("str", "title"), P(":"), Tok("str", "x"), P(","), P("}") >>,
    << P("{"), Tok("str", "title"), Tok("str", "x"), P("}") >>,
    << P("["), Tok("str", "x"), P("}") >>,
    << Tok("lit", "True") >> }

\* replies of ollama.chat in create_event_conversation
ConversationReplies ==
  {EngineRaise(m) : m \in ErrorMessages}
  \cup {EngineJSON(c) : c \in DecodableContents \cup UndecodableContents \cup {DeepContent, <<>>}}
  \cup {EngineNoMessage}

\* replies of ollama.chat in chat
ChatReplies ==
  {EngineRaise(m) : m \in ErrorMessages} \cup {EngineText(s) : s \in ChatTexts}
  \cup {EngineNoMessage}

\* results of analyzer.analyze
AnalyzerResults ==
  { JObj(<<KV("title", JStr("Tech Fest")), KV("confidence", JNum("0.8"))>>),
    JObj(<<>>) }

(***************************************************************************)
(* State.                                                                  *)
(***************************************************************************)
VARIABLES
  server,    \* "starting", "serving", or "failed" when startup_event raised
  analyzer,  \* the global analyzer: "None" or the loaded BannerAnalyzer
  req,       \* the requests in flight, by slot
  files,     \* names of the temporary files that exist
  received   \* requests received so far

vars == <<server, analyzer, req, files, received>>

Slots == 1..MaxInFlight

\* the BannerAnalyzer with the easy OCR backend built at startup
LoadedAnalyzer == "easy"

Init ==
  /\ server = "starting"
  /\ analyzer = "None"
  /\ req = [r \in Slots |-> IdleRequest]
  /\ files = {}
  /\ received = 0

(***************************************************************************)
(* startup_event                                                           *)
(***************************************************************************)
\* the value startup_event binds to the global
StartupValue == LoadedAnalyzer

Startup ==
  /\ server = "starting"
  /\ analyzer' = StartupValue
  /\ server' = "serving"
  /\ UNCHANGED <<req, files, received>>

\* BannerAnalyzer(...) raises: the exception is re-raised and the server
\* does not start
StartupFail ==
  /\ server = "starting"
  /\ server' = "failed"
  /\ UNCHANGED <<analyzer, req, files, received>>

(***************************************************************************)
(* Arrival of a request.                                                   *)
(***************************************************************************)
CanReceive(r) ==
  /\ server = "serving"
  /\ req[r].pc \in {"idle", "done"}
  /\ received < MaxRequests

Receive(r, request) ==
  /\ CanReceive(r)
  /\ req' = [req EXCEPT ![r] = [request EXCEPT !.id = received + 1]]
  /\ received' = received + 1
  /\ UNCHANGED <<server, analyzer, files>>

ReceiveRoot(r) ==
  Receive(r, [IdleRequest EXCEPT !.kind = "root", !.pc = "start"])

ReceiveHealth(r) ==
  Receive(r, [IdleRequest EXCEPT !.kind = "health", !.pc = "start"])

ReceiveAnalyze(r, content_type) ==
  Receive(r, [IdleRequest EXCEPT !.kind = "analyze", !.pc = "start",
                                 !.content_type = content_type])

ReceiveChat(r, message, context) ==
  Receive(r, [IdleRequest EXCEPT !.kind = "chat", !.pc = "start",
                                 !.message = message, !.context = context])

ReceiveConversation(r, message, history) ==
  Receive(r, [IdleRequest EXCEPT !.kind = "conversation", !.pc = "start",
                                 !.message = message, !.history = history])

\* the handler in slot r returns or raises `response`
Finish(r, response) ==
  req' = [req EXCEPT ![r].pc = "done", ![r].response = response]

(***************************************************************************)
(* root, health                                                            *)
(***************************************************************************)
Root(r) ==
  /\ req[r].kind = "root" /\ req[r].pc = "start"
  /\ Finish(r, JSONResponse(JObj(<<KV("status", JStr("running")),
                                   KV("service", JStr("Banner Analyzer API"))>>)))
  /\ UNCHANGED <<server, analyzer, files, received>>

Health(r) ==
  /\ req[r].kind = "health" /\ req[r].pc = "start"
  /\ Finish(r, JSONResponse(JObj(<<KV("status", JStr("healthy")),
                                   KV("analyzer_loaded", JBool(analyzer # "None")),
                                   KV("ocr_backend",
                                      IF analyzer # "None" THEN JStr(analyzer) ELSE JNull)>>)))
  /\ UNCHANGED <<server, analyzer, files, received>>

(***************************************************************************)
(* analyze_banner                                                          *)
(***************************************************************************)
\* the checks before the try block
AnalyzeValidate(r) ==
  /\ req[r].kind = "analyze" /\ req[r].pc = "start"
  /\ IF analyzer = "None"
     THEN Finish(r, HTTPError(503, DETAIL_NOT_INITIALIZED))
     ELSE IF ~req[r].content_type.some
     \* None.startswith: AttributeError outside the try, an unhandled error
     THEN Finish(r, HTTPError(500, DETAIL_INTERNAL))
     ELSE IF ~StartsWith(req[r].content_type.val, IMAGE_PREFIX)
     THEN Finish(r, HTTPError(400, DETAIL_NOT_IMAGE))
     ELSE req' = [req EXCEPT ![r].pc = "mktemp"]
  /\ UNCHANGED <<server, analyzer, files, received>>

\* tempfile picks a name no other file has or had: the request's number
FreshName(r) == req[r].id

\* the exception handler of analyze_banner: the response to raise after finally
AnalysisFailed(r, error_msg) ==
  [req EXCEPT ![r].pc = "finally", ![r].error = Some(error_msg),
              ![r].response = HTTPError(500, DETAIL_ANALYSIS_FAILED \o error_msg)]

\* tempfile.NamedTemporaryFile(delete=False, suffix=".jpg")
AnalyzeCreateTemp(r, inp) ==
  /\ req[r].kind = "analyze" /\ req[r].pc = "mktemp"
  /\ \/ /\ files' = files \cup {FreshName(r)}
        /\ req' = [req EXCEPT ![r].pc = "read", ![r].tmp = FreshName(r)]
     \/ /\ \E e \in inp.errors : req' = AnalysisFailed(r, e)
        /\ UNCHANGED files
  /\ UNCHANGED <<server, analyzer, received>>

\* content = await file.read()
AnalyzeRead(r, inp) ==
  /\ req[r].kind = "analyze" /\ req[r].pc = "read"
  /\ \/ req' = [req EXCEPT ![r].pc = "write"]
     \/ \E e \in inp.errors : req' = AnalysisFailed(r, e)
  /\ UNCHANGED <<server, analyzer, files, received>>

\* tmp.write(content); tmp_path = tmp.name
AnalyzeWrite(r, inp) ==
  /\ req[r].kind = "analyze" /\ req[r].pc = "write"
  /\ \/ req' = [req EXCEPT ![r].pc = "analyze", ![r].tmp_path = req[r].tmp]
     \/ \E e \in inp.errors : req' = AnalysisFailed(r, e)
  /\ UNCHANGED <<server, analyzer, files, received>>

\* result = analyzer.analyze(tmp_path); return JSONResponse(content=result)
AnalyzeRun(r, inp) ==
  /\ req[r].kind = "analyze" /\ req[r].pc = "analyze"
  /\ \/ \E result \in inp.results :
          req' = [req EXCEPT ![r].pc = "finally", ![r].acalls = @ + 1,
                             ![r].result = result,
                             ![r].response = JSONResponse(result)]
     \/ \E e \in inp.errors :
          req' = [AnalysisFailed(r, e) EXCEPT ![r].acalls = @ + 1]
  /\ UNCHANGED <<server, analyzer, files, received>>

\* variant: the cleanup also drops the global analyzer
AnalyzeFinally_DropsAnalyzer(r) ==
  /\ req[r].kind = "analyze" /\ req[r].pc = "finally"
  /\ req' = [req EXCEPT ![r].pc = "done"]
  /\ analyzer' = "None"
  /\ IF req[r].tmp_path # 0 /\ req[r].tmp_path \in files
     THEN \/ files' = files \ {req[r].tmp_path}
          \/ UNCHANGED files
     ELSE UNCHANGED files
  /\ UNCHANGED <<server, received>>

\* the finally block: the file is unlinked when tmp_path is set and exists;
\* a failing unlink is printed and swallowed
AnalyzeFinally(r) ==
  /\ req[r].kind = "analyze" /\ req[r].pc = "finally"
  /\ req' = [req EXCEPT ![r].pc = "done"]
  /\ IF req[r].tmp_path # 0 /\ req[r].tmp_path \in files
     THEN \/ files' = files \ {req[r].tmp_path}
          \/ UNCHANGED files
     ELSE UNCHANGED files
  /\ UNCHANGED <<server, analyzer, received>>

(***************************************************************************)
(* The except blocks of chat and create_event_conversation.                *)
(***************************************************************************)
\* variant: the keyword is searched in the message as written, not lowered
IsUnreachable_CaseSensitive(error_msg) ==
  \/ Contains(KW_CONNECTION, error_msg)
  \/ Contains(KW_PORT, error_msg)

\* the test that classifies a failure as "the backend is unreachable"
IsUnreachable(error_msg) ==
  \/ Contains(KW_CONNECTION, Lower(error_msg))
  \/ Contains(KW_PORT, error_msg)

\* except Exception as e: the response raised for str(e) = error_msg
HandleException(error_msg, prefix) ==
  IF IsUnreachable(error_msg)
  THEN HTTPError(503, DETAIL_OLLAMA_DOWN)
  ELSE HTTPError(500, prefix \o error_msg)

\* raise HTTPException(status, detail) inside the try block: the exception
\* is an Exception, so the except block of the same handler catches it
RaisedInTry(status, detail, prefix) ==
  {HandleException(m, prefix) : m \in StrHTTPException(status, detail)}

\* not request.message or not request.message.strip()
IsBlank(message) == ~Truthy(message) \/ ~Truthy(Strip(message))

(***************************************************************************)
(* chat                                                                    *)
(***************************************************************************)
\* the message list chat sends
ChatMessages(message, context) ==
  <<Message(ROLE_SYSTEM, CHAT_SYSTEM_PROMPT)>>
  \o (IF context.some /\ Truthy(context.val)
      THEN <<Message(ROLE_SYSTEM, CONTEXT_PREFIX \o context.val)>>
      ELSE <<>>)
  \o <<Message(ROLE_USER, message)>>

ChatValidate(r) ==
  /\ req[r].kind = "chat" /\ req[r].pc = "start"
  /\ IF IsBlank(req[r].message)
     THEN \E response \in RaisedInTry(400, DETAIL_MESSAGE_REQUIRED, DETAIL_CHAT_FAILED) :
            Finish(r, response)
     ELSE req' = [req EXCEPT ![r].pc = "invoke",
                             ![r].messages = ChatMessages(req[r].message, req[r].context)]
  /\ UNCHANGED <<server, analyzer, files, received>>

\* response = ollama.chat(model="llama3.2", messages=messages)
ChatInvoke(r, inp) ==
  /\ req[r].kind = "chat" /\ req[r].pc = "invoke"
  /\ \E reply \in inp.chat_replies :
       req' = [req EXCEPT ![r].pc = "invoked", ![r].calls = @ + 1, ![r].reply = reply]
  /\ UNCHANGED <<server, analyzer, files, received>>

\* the responses chat can end with after ollama.chat answered `reply`
ChatResponses(reply) ==
  IF ~reply.ok
  THEN {HandleException(reply.err, DETAIL_CHAT_FAILED)}
  ELSE LET content == IF reply.has_message THEN reply.text ELSE ""
       IN IF content = ""
          THEN RaisedInTry(500, DETAIL_EMPTY_RESPONSE, DETAIL_CHAT_FAILED)
          ELSE {JSONResponse(JObj(<<KV("success", JBool(TRUE)),
                                    KV("response", JStr(content))>>))}

ChatFinish(r) ==
  /\ req[r].kind = "chat" /\ req[r].pc = "invoked"
  /\ \E response \in ChatResponses(req[r].reply) : Finish(r, response)
  /\ UNCHANGED <<server, analyzer, files, received>>

(***************************************************************************)
(* create_event_conversation                                               *)
(***************************************************************************)
\* variant: the new message is appended before the history
ConversationMessages_NewFirst(message, history) ==
  <<Message(ROLE_SYSTEM, CONV_SYSTEM_PROMPT)>>
  \o <<Message(ROLE_USER, message)>>
  \o (IF history.some /\ history.val # <<>>
      THEN [i \in 1..Len(history.val) |->
              Message(TurnGet(history.val[i], "role", ROLE_USER),
                      TurnGet(history.val[i], "content", <<>>))]
      ELSE <<>>)

\* the message list create_event_conversation sends
ConversationMessages(message, history) ==
  <<Message(ROLE_SYSTEM, CONV_SYSTEM_PROMPT)>>
  \o (IF history.some /\ history.val # <<>>
      THEN [i \in 1..Len(history.val) |->
              Message(TurnGet(history.val[i], "role", ROLE_USER),
                      TurnGet(history.val[i], "content", <<>>))]
      ELSE <<>>)
  \o <<Message(ROLE_USER, message)>>

ConversationValidate(r) ==
  /\ req[r].kind = "conversation" /\ req[r].pc = "start"
  /\ IF IsBlank(req[r].message)
     THEN \E response \in RaisedInTry(400, DETAIL_MESSAGE_REQUIRED, DETAIL_CONV_FAILED) :
            Finish(r, response)
     ELSE req' = [req EXCEPT ![r].pc = "invoke",
                             ![r].messages =
                               ConversationMessages(req[r].message, req[r].history)]
  /\ UNCHANGED <<server, analyzer, files, received>>

\* response = ollama.chat(model="llama3.2", messages=messages, format="json")
ConversationInvoke(r, inp) ==
  /\ req[r].kind = "conversation" /\ req[r].pc = "invoke"
  /\ \E reply \in inp.conversation_replies :
       req' = [req EXCEPT ![r].pc = "invoked", ![r].calls = @ + 1, ![r].reply = reply]
  /\ UNCHANGED <<server, analyzer, files, received>>

\* variant: no fallback, whatever the decoder left is returned
Interpret_NoFallback(parsed) == parsed.val

\* try: result = json.loads(content) / except json.JSONDecodeError: the fallback
Interpret(parsed) ==
  IF parsed.st = "decode_error" THEN FallbackClarification ELSE parsed.val

\* {"success": True, "result": result}
Envelope(result) == JObj(<<KV("success", JBool(TRUE)), KV("result", result)>>)

\* the responses create_event_conversation can end with after `reply`
ConversationResponses(reply) ==
  IF ~reply.ok
  THEN {HandleException(reply.err, DETAIL_CONV_FAILED)}
  ELSE LET content == IF reply.has_message THEN reply.content ELSE <<>>
       IN IF content = <<>>
          THEN RaisedInTry(500, DETAIL_EMPTY_RESPONSE, DETAIL_CONV_FAILED)
          ELSE LET parsed == Loads(content)
               IN IF parsed.st = "recursion_error"
                  THEN {HandleException(ERR_RECURSION, DETAIL_CONV_FAILED)}
                  ELSE IF Render(Envelope(Interpret(parsed))).ok
                  THEN {JSONResponse(Envelope(Interpret(parsed)))}
                  ELSE {HandleException(ERR_OUT_OF_RANGE, DETAIL_CONV_FAILED)}

\* variant: a failed invocation is tried again
ConversationFinish_Retry(r) ==
  /\ req[r].kind = "conversation" /\ req[r].pc = "invoked"
  /\ IF ~req[r].reply.ok
     THEN req' = [req EXCEPT ![r].pc = "invoke"]
     ELSE \E response \in ConversationResponses(req[r].reply) : Finish(r, response)
  /\ UNCHANGED <<server, analyzer, files, received>>

ConversationFinish(r) ==
  /\ req[r].kind = "conversation" /\ req[r].pc = "invoked"
  /\ \E response \in ConversationResponses(req[r].reply) : Finish(r, response)
  /\ UNCHANGED <<server, analyzer, files, received>>

(***************************************************************************)
(* Specifications.                                                         *)
(***************************************************************************)
\* every input, one request at a time
AllInputs ==
  [messages |-> Messages, contexts |-> Contexts, histories |-> Histories,
   content_types |-> ContentTypes, errors |-> ErrorMessages,
   results |-> AnalyzerResults, chat_replies |-> ChatReplies,
   conversation_replies |-> ConversationReplies]

\* a few inputs of each kind, for requests running side by side
FewInputs ==
  [messages |-> {<<"h", "i">>},
   contexts |-> {None},
   histories |-> {None},
   content_types |-> {Some(<<"i", "m", "a", "g", "e", "/", "p", "n", "g">>), Some(<<"t", "e", "x", "t", "/", "p", "l", "a", "i", "n">>)},
   errors |-> {<<"C", "o", "n", "n", "e", "c", "t", "i", "o", "n", " ", "r", "e", "f", "u", "s", "e", "d">>},
   results |-> {JObj(<<>>)},
   chat_replies |-> {EngineRaise(<<"m", "o", "d", "e", "l", " ", "n", "o", "t", " ", "f", "o", "u", "n", "d">>), EngineText("Sure.")},
   conversation_replies |->
     {EngineRaise(<<"C", "o", "n", "n", "e", "c", "t", "i", "o", "n", " ", "r", "e", "f", "u", "s", "e", "d">>),
      EngineJSON(<<Tok("bad", "Sure! Here is the event:")>>)}]

Step(r, inp) ==
  \/ ReceiveRoot(r)
  \/ ReceiveHealth(r)
  \/ \E c \in inp.content_types : ReceiveAnalyze(r, c)
  \/ \E m \in inp.messages, c \in inp.contexts : ReceiveChat(r, m, c)
  \/ \E m \in inp.messages, h \in inp.histories : ReceiveConversation(r, m, h)
  \/ Root(r)
  \/ Health(r)
  \/ AnalyzeValidate(r)
  \/ AnalyzeCreateTemp(r, inp)
  \/ AnalyzeRead(r, inp)
  \/ AnalyzeWrite(r, inp)
  \/ AnalyzeRun(r, inp)
  \/ AnalyzeFinally(r)
  \/ ChatValidate(r)
  \/ ChatInvoke(r, inp)
  \/ ChatFinish(r)
  \/ ConversationValidate(r)
  \/ ConversationInvoke(r, inp)
  \/ ConversationFinish(r)

\* one request at a time, over every input
Next == Startup \/ StartupFail \/ Step(1, AllInputs)

Spec == Init /\ [][Next]_vars

\* requests side by side in every slot
NextConcurrent == Startup \/ StartupFail \/ \E r \in Slots : Step(r, FewInputs)

SpecConcurrent == Init /\ [][NextConcurrent]_vars

(***************************************************************************)
(* Properties.                                                             *)
(***************************************************************************)
Done(r) == req[r].pc = "done"
IsChatLike(r) == req[r].kind \in {"chat", "conversation"}

\* the "result" member of the body a finished request answered with
ResultOf(r) == GetKey(Loads(req[r].response.body).val, "result", JNull)

\* the text ollama.chat returned to a conversation request
ContentOf(r) == IF req[r].reply.has_message THEN req[r].reply.content ELSE <<>>

\* C1: a chat or conversation request whose message is empty or only
\* whitespace ends with status 400 and never invokes the completion engine.
C1_BlankMessageIs400 ==
  \A r \in Slots :
    (IsChatLike(r) /\ Done(r) /\ Strip(req[r].message) = <<>>)
      => (req[r].response.status = 400 /\ req[r].calls = 0)

\* C2 as stated: every output that is empty or does not decode ends as a
\* success carrying the fallback Clarification.
C2_MalformedOrEmptyGivesFallback ==
  \A r \in Slots :
    (req[r].kind = "conversation" /\ Done(r) /\ req[r].calls = 1 /\ req[r].reply.ok
       /\ ContentOf(r) \in UndecodableContents \cup {<<>>})
      => (req[r].response.status = 200 /\ ResultOf(r) = FallbackClarification)

\* C2 amended: every non-empty output that json.loads rejects with a
\* JSONDecodeError ends as a success carrying the one fallback Clarification;
\* an empty output ends as the error response 500.
C2_UndecodableGivesFallback ==
  \A r \in Slots :
    (req[r].kind = "conversation" /\ Done(r) /\ req[r].calls = 1 /\ req[r].reply.ok)
      => /\ ContentOf(r) \in UndecodableContents
              => /\ req[r].response.status = 200
                 /\ GetKey(Loads(req[r].response.body).val, "success", JNull) = JBool(TRUE)
                 /\ ResultOf(r) = FallbackClarification
                 /\ GetKey(ResultOf(r), "confidence", JNull) = JNum("0.0")
                 /\ GetKey(ResultOf(r), "extracted_so_far", JNull) = JObj(<<>>)
                 /\ GetKey(ResultOf(r), "missing_fields", JNull)
                      = JArr(<<JStr("title"), JStr("category"), JStr("venue_type"),
                               JStr("timeslots")>>)
         /\ ContentOf(r) = <<>> => req[r].response.status = 500

C2_Witness ==
  \E r \in Slots :
    /\ req[r].kind = "conversation" /\ Done(r) /\ req[r].reply.ok
    /\ ContentOf(r) = Truncate(DumpsToks(CompletionValue("workshop", "0.95")))
    /\ req[r].response.status = 200

C3_HasType(x, k, type) == HasKey(x, k) /\ GetKey(x, k, JNull).t = type

C3_IsClarification(x) ==
  /\ C3_HasType(x, "question", "str")
  /\ C3_HasType(x, "extracted_so_far", "obj")
  /\ C3_HasType(x, "missing_fields", "arr")
  /\ C3_HasType(x, "confidence", "num")

C3_IsCompletion(x) ==
  /\ C3_HasType(x, "event_data", "obj")
  /\ C3_HasType(x, "confidence", "num")
  /\ C3_HasType(x, "message", "str")

C3_WellFormed(x) == C3_IsClarification(x) \/ C3_IsCompletion(x)

\* C3 as stated: the result of every success response of
\* create_event_conversation is a Clarification or a Completion.
C3_SuccessIsWellFormed ==
  \A r \in Slots :
    (req[r].kind = "conversation" /\ Done(r) /\ req[r].response.status = 200)
      => C3_WellFormed(ResultOf(r))

\* C3 amended: the result of every success response is the fallback
\* Clarification when the output did not decode, and otherwise exactly the
\* value the output denotes; it is a Clarification or a Completion whenever
\* the output is one or did not decode.
C3_SuccessIsFallbackOrOutput ==
  \A r \in Slots :
    (req[r].kind = "conversation" /\ Done(r) /\ req[r].response.status = 200)
      => /\ req[r].reply.ok /\ ContentOf(r) # <<>>
         /\ ContentOf(r) \in UndecodableContents => ResultOf(r) = FallbackClarification
         /\ \A o \in CompletionOutputs \cup ClarificationOutputs \cup OtherOutputs :
              ContentOf(r) = o.text => ResultOf(r) = o.value
         /\ ContentOf(r) \in UndecodableContents
                \cup {o.text : o \in CompletionOutputs \cup ClarificationOutputs}
              => C3_WellFormed(ResultOf(r))

C3_Witness ==
  \E r \in Slots :
    /\ req[r].kind = "conversation" /\ Done(r) /\ req[r].response.status = 200
    /\ ContentOf(r) = DuplicateKeyText
    /\ ~C3_WellFormed(ResultOf(r))

\* failure descriptions that mention "connection" in any case, or 11434
C4_Unreachable == {<<"C", "o", "n", "n", "e", "c", "t", "i", "o", "n", " ", "r", "e", "f", "u", "s", "e", "d">>, <<"h", "o", "s", "t", ":", "1", "1", "4", "3", "4", " ", "d", "o", "w", "n">>}

C4_Prefix(r) == IF req[r].kind = "chat" THEN DETAIL_CHAT_FAILED ELSE DETAIL_CONV_FAILED

C5_TempFileReleased ==
  \A r \in Slots :
    (req[r].kind = "analyze" /\ Done(r) /\ req[r].tmp # 0) => req[r].tmp \notin files

\* declared content types that do not begin with image/
C6_NotImage == {<<"t", "e", "x", "t", "/", "p", "l", "a", "i", "n">>, <<"I", "m", "a", "g", "e", "/", "p", "n", "g">>, <<"i", "m", "a", "g", "e">>, <<>>}

\* C6: an upload whose declared content type does not begin with image/
\* ends with status 400, and the analyzer is never invoked for it.
C6_NonImageRejected ==
  \A r \in Slots :
    (req[r].kind = "analyze" /\ req[r].content_type.some
       /\ req[r].content_type.val \in C6_NotImage)
      => /\ req[r].pc \in {"start", "done"}
         /\ req[r].acalls = 0
         /\ req[r].tmp = 0
         /\ Done(r) => req[r].response = HTTPError(400, DETAIL_NOT_IMAGE)

C6_Witness ==
  \E r \in Slots :
    /\ req[r].kind = "analyze" /\ Done(r)
    /\ req[r].content_type = Some(<<"t", "e", "x", "t", "/", "p", "l", "a", "i", "n">>)
    /\ req[r].response.status = 400
    /\ req[r].acalls = 0

C7_History(r) == IF req[r].history.some THEN req[r].history.val ELSE <<>>

\* C7: the list create_event_conversation sends is the system prompt, then
\* one entry per history turn in order with the role and content of the
\* turn, then the new message as a user entry: length(history) + 2 entries.
C7_MessagesOrdered ==
  \A r \in Slots :
    (req[r].kind = "conversation" /\ req[r].pc \in {"invoke", "invoked", "done"}
       /\ ~IsBlank(req[r].message))
      => LET h == C7_History(r)
             ms == req[r].messages
         IN /\ Len(ms) = Len(h) + 2
            /\ ms[1] = Message(ROLE_SYSTEM, CONV_SYSTEM_PROMPT)
            /\ ms[Len(ms)] = Message(ROLE_USER, req[r].message)
            /\ \A i \in 1..Len(h) :
                 /\ "role" \in DOMAIN h[i] => ms[i + 1].role = h[i].role
                 /\ "content" \in DOMAIN h[i] => ms[i + 1].content = h[i].content
                 /\ DOMAIN ms[i + 1] = {"role", "content"}

C7_Witness ==
  \E r \in Slots :
    /\ req[r].kind = "conversation" /\ req[r].pc = "invoked"
    /\ Len(C7_History(r)) = 2
    /\ C7_History(r)[1] # C7_History(r)[2]
    /\ "role" \in DOMAIN C7_History(r)[1] /\ "role" \in DOMAIN C7_History(r)[2]
    /\ Len(req[r].messages) = 4

\* C8: an output that is a complete Completion is answered with a success
\* whose result has the event_data, the confidence and the message of the
\* output.
C8_CompletionRoundTrip ==
  \A r \in Slots :
    (req[r].kind = "conversation" /\ Done(r) /\ req[r].calls = 1 /\ req[r].reply.ok)
      => \A o \in CompletionOutputs :
           ContentOf(r) = o.text
             => /\ req[r].response.status = 200
                /\ GetKey(ResultOf(r), "event_data", JNull)
                     = GetKey(o.value, "event_data", JNull)
                /\ GetKey(ResultOf(r), "confidence", JNull)
                     = GetKey(o.value, "confidence", JNull)
                /\ GetKey(ResultOf(r), "message", JNull)
                     = GetKey(o.value, "message", JNull)
                /\ ResultOf(r) = o.value

C8_Witness ==
  \E r \in Slots :
    /\ req[r].kind = "conversation" /\ Done(r) /\ req[r].reply.ok
    /\ ContentOf(r) = <<WS>> \o DumpsToks(CompletionValue("workshop", "0.95")) \o <<WS>>
    /\ req[r].response.status = 200
    /\ GetKey(ResultOf(r), "event_data", JNull) = EventData("workshop")

\* C9: a request invokes the completion engine at most once, and a request
\* that has its reply, or has finished, is never back before the invocation.
C9_AtMostOneInvocation ==
  \A r \in Slots :
    /\ req[r].calls <= 1
    /\ (IsChatLike(r) /\ req[r].pc = "invoke") => req[r].calls = 0
    /\ (IsChatLike(r) /\ req[r].pc = "invoked") => req[r].calls = 1

C9_Witness ==
  \E r \in Slots :
    /\ req[r].kind = "conversation" /\ Done(r) /\ req[r].calls = 1
    /\ ~req[r].reply.ok
    /\ req[r].response.status = 500

\* the responses a request gives when it is the only request the server
\* handles, for its inputs and the replies its collaborators gave it
C10_Alone(q) ==
  CASE q.kind = "root" ->
         {JSONResponse(JObj(<<KV("status", JStr("running")),
                              KV("service", JStr("Banner Analyzer API"))>>))}
    [] q.kind = "health" ->
         {JSONResponse(JObj(<<KV("status", JStr("healthy")),
                              KV("analyzer_loaded", JBool(TRUE)),
                              KV("ocr_backend", JStr(LoadedAnalyzer))>>))}
    [] q.kind = "chat" ->
         IF q.calls = 0
         THEN RaisedInTry(400, DETAIL_MESSAGE_REQUIRED, DETAIL_CHAT_FAILED)
         ELSE ChatResponses(q.reply)
    [] q.kind = "conversation" ->
         IF q.calls = 0
         THEN RaisedInTry(400, DETAIL_MESSAGE_REQUIRED, DETAIL_CONV_FAILED)
         ELSE ConversationResponses(q.reply)
    [] OTHER ->
         IF ~StartsWith(q.content_type.val, IMAGE_PREFIX)
         THEN {HTTPError(400, DETAIL_NOT_IMAGE)}
         ELSE IF q.error.some
         THEN {HTTPError(500, DETAIL_ANALYSIS_FAILED \o q.error.val)}
         ELSE {JSONResponse(q.result)}

\* C10: after startup the global analyzer keeps the value startup gave it
\* whatever requests run side by side, and every finished request has the
\* response it has when it runs alone.
C10_AnalyzerFixedOutcomesAlone ==
  /\ server = "serving" => analyzer = LoadedAnalyzer
  /\ server # "serving" => analyzer = "None"
  /\ \A r \in Slots : Done(r) => req[r].response \in C10_Alone(req[r])

C10_Witness ==
  \E r1, r2 \in Slots :
    /\ r1 # r2
    /\ req[r1].kind = "analyze" /\ req[r1].pc = "analyze"
    /\ req[r2].kind = "analyze" /\ Done(r2) /\ req[r2].id > req[r1].id
    /\ req[r2].response.status = 200
    /\ analyzer = LoadedAnalyzer

=============================================================================
